---- MODULE Spec2Model ----
(***************************************************************************)
(* The sync-and-action core of vif: the in-memory todo collection, the     *)
(* remote /todonna/ document store, the optimistic operations with         *)
(* rollback, the change-loop guard and the action applicator.              *)
(*                                                                         *)
(* Two implementations of the engine live in the repository and both are   *)
(* modelled; Init picks one:                                               *)
(*   "hook"  - hooks/use-todonna.ts (useTodonna) driven by the applicator  *)
(*             of unnamed/part_011 (useTodoActions over useTodonna);       *)
(*   "store" - stores/use-todo-store.ts (zustand), which talks to the      *)
(*             remoteStorage.todonna data module.                          *)
(* A third one, "actions" - components/todo/hooks/use-todo-actions.ts      *)
(* (useTodoActions over the data module, with the refs and the timers of   *)
(* the hook), is followed where its applicator differs from the store's.   *)
(***************************************************************************)
EXTENDS Integers, Sequences, FiniteSets, TLC

VARIABLES
    engine,         \* which implementation runs: "hook" | "store" | "actions"
    todos,          \* the in-memory collection (useState / zustand `todos`)
    remote,         \* the /todonna/ document store: key -> document | NoDoc
    isInitialized,  \* isInitializedRef.current / isInitialized
    isSaving,       \* isSavingRef.current / isSaving
    loading,        \* loadingRef.current / isLoading of the store
    load,           \* the loadTodos call in flight, or its idle marker
    pending,        \* the engine operations whose store call is in flight
    timers,         \* armed setTimeout(..., 100) callbacks of the hook
    notif,          \* a change notification is waiting to be delivered
    ha,             \* the handleAction call in flight, or its idle marker
    sortBy,         \* the sort preference
    uiLoading,      \* isLoading of the UI (set by handleAction)
    last,           \* history: the operation that settled last
    lastNotif,      \* history: what the last change notification met and did
    lastHA,         \* history: the handleAction call that settled last
    issued,         \* history: store calls issued by the last setAllTodos
    nOps,           \* history: operations the user may still invoke
    nExt,           \* history: writes other devices may still make
    speech,         \* the voice input: "idle" | "stopping" | "processing"
    conn            \* useRemoteStorage: the module-level singleton and the
                    \* components that use the hook

vars == <<engine, todos, remote, isInitialized, isSaving, loading, load, pending,
          timers, notif, ha, sortBy, uiLoading, last, lastNotif, lastHA, issued, nOps,
          nExt, speech, conn>>

(***************************************************************************)
(* Bounds of the model.                                                    *)
(***************************************************************************)
MaxId == 3          \* item ids are 1..MaxId
MaxOps == 1         \* engine operations the user invokes in one behaviour
MaxOverlap == 2     \* operations invoked where the claim is about overlapping ones
MaxUtter == 1       \* utterances handed to handleAction in one behaviour
MaxBatch == 1       \* actions the interpreter returns for one utterance
MaxComponents == 2  \* components that use useRemoteStorage
MaxExt == 1         \* writes made by another device in one behaviour

Ids == 1..MaxId
Texts == {"a", "b"}
Dates == {"D1", "D2"}
selectedDate == "D1"
RawText == "raw"
NoEmoji == "none"
NoTime == "none"
NoDoc == [absent |-> TRUE]
None == [kind |-> "none"]

(***************************************************************************)
(* Sequence helpers.                                                       *)
(***************************************************************************)
Range(s) == {s[i] : i \in 1..Len(s)}

MapSeq(s, F(_)) == [i \in 1..Len(s) |-> F(s[i])]

RemoveAt(s, i) == [j \in 1..(Len(s) - 1) |-> IF j < i THEN s[j] ELSE s[j + 1]]

RECURSIVE SetToSeq(_)
SetToSeq(S) ==
    IF S = {} THEN <<>>
    ELSE LET x == CHOOSE y \in S : \A z \in S : y[1] <= z[1]
         IN <<x>> \o SetToSeq(S \ {x})

IdsOf(s) == {s[i].id : i \in 1..Len(s)}

(***************************************************************************)
(* Items, documents and the codec.                                         *)
(***************************************************************************)
Item(id, text, completed, date) ==
    [id |-> id, text |-> text, completed |-> completed, emoji |-> NoEmoji,
     date |-> date, time |-> NoTime, removed |-> FALSE]

\* `${todo.id}.json`
Filename(id) == <<id, ".json">>

\* filename.replace('.json', '')
IdOfFilename(key) == key[1]

Keys == {Filename(i) : i \in Ids}

\* a variant that renders every date as the first day
FirstDayString(d) == "2025-11-08T00:00:00.000Z"

\* Date.toISOString()
toISOString(d) == IF d = "D1" THEN "2025-11-08T00:00:00.000Z"
                  ELSE "2025-11-09T00:00:00.000Z"

\* new Date(isoString)
newDate(iso) == IF iso = "2025-11-08T00:00:00.000Z" THEN "D1" ELSE "D2"

\* serializeTodo of lib/utils/todo: normalises the date to a Date object;
\* dates are already abstract days here.
serializeTodo(t) == t

\* the TodonnaItem written by addTodo / updateTodo / setAllTodos
Encode(t) ==
    [todo_item_text |-> t.text, completed |-> t.completed, emoji |-> t.emoji,
     date |-> toISOString(t.date), time |-> t.time]

\* the item loadTodos builds from a document; `todonnaItem.completed ||
\* false` for a document that has no completed field
Decode(key, doc) ==
    serializeTodo([id |-> IdOfFilename(key), text |-> doc.todo_item_text,
                   completed |-> IF "completed" \in DOMAIN doc THEN doc.completed
                                 ELSE FALSE,
                   emoji |-> doc.emoji,
                   date |-> newDate(doc.date), time |-> doc.time,
                   removed |-> FALSE])

Listing(r) == {k \in Keys : r[k] # NoDoc}

\* a variant that writes the document under every key
PutEverywhere(r, key, doc) == [k \in DOMAIN r |-> doc]

Put(r, key, doc) == [r EXCEPT ![key] = doc]

Delete(r, key) == [r EXCEPT ![key] = NoDoc]

\* newTodos.filter(t => !t.removed).map(serializeTodo)
ActiveOf(s) == MapSeq(SelectSeq(s, LAMBDA t : ~t.removed), serializeTodo)

\* todos.filter(t => t.id !== id)
WithoutId(s, id) == SelectSeq(s, LAMBDA t : t.id # id)

\* a variant that leaves the collection as it is
NotReplaced(s, todo) == s

\* a variant that drops the item instead of replacing it
DropById(s, todo) == WithoutId(s, todo.id)

\* todos.map(t => t.id === todo.id ? serializeTodo(todo) : t)
ReplaceById(s, todo) ==
    MapSeq(s, LAMBDA t : IF t.id = todo.id THEN serializeTodo(todo) ELSE t)

(***************************************************************************)
(* Initial state: the hook is mounted (or the store created) on a          *)
(* connected remoteStorage whose /todonna/ scope holds some documents, and *)
(* the initial loadTodos() of the mount effect has been called.            *)
(***************************************************************************)
\* useRemoteStorage before any component has mounted: `let
\* remoteStorageInstance = null; let isInitialized = false`
Components == 1..MaxComponents

Unmounted == [mounted |-> FALSE, due |-> FALSE, hasClaimedAccess |-> FALSE,
              apiKeys |-> FALSE, instance |-> FALSE]

InitialConn ==
    [remoteStorageInstance |-> FALSE, isInitialized |-> FALSE,
     created |-> 0, claimed |-> 0, keysSet |-> FALSE,
     comps |-> [c \in Components |-> Unmounted]]

InitialIds == {1, 2}

InitialDoc(i) == Encode(Item(i, "a", i = 2, selectedDate))

InitFor(engines, ops) ==
    /\ engine \in engines
    /\ todos = <<>>
    /\ remote = [k \in Keys |->
                    IF IdOfFilename(k) \in InitialIds
                    THEN InitialDoc(IdOfFilename(k)) ELSE NoDoc]
    /\ isInitialized = FALSE
    /\ isSaving = FALSE
    /\ loading = TRUE
    /\ load = [kind |-> "listing"]
    /\ pending = <<>>
    /\ timers = 0
    /\ notif = FALSE
    /\ ha = None
    /\ sortBy = "newest"
    /\ uiLoading = FALSE
    /\ last = None
    /\ lastNotif = None
    /\ lastHA = None
    /\ issued = None
    /\ nOps = ops
    /\ nExt = MaxExt
    /\ speech = "idle"
    /\ conn = InitialConn

InitWith(ops) == InitFor({"hook", "store"}, ops)

Init == InitWith(MaxOps)

InitOverlap == InitWith(MaxOverlap)

InitActions == InitWith(MaxUtter)

\* the three applicators, each on its engine
InitApplicators == InitFor({"hook", "store", "actions"}, MaxUtter)

(***************************************************************************)
(* Bookkeeping shared by the operations.                                   *)
(***************************************************************************)
\* an operation record: what the async function keeps across its await
OpRecIn(kind, todo, list, prev, before, seq, clean) ==
    [kind |-> kind, todo |-> todo, list |-> list, prev |-> prev,
     before |-> before, stage |-> "call", puts |-> <<>>, deletes |-> <<>>,
     seq |-> seq, clean |-> clean, src |-> "user", awaited |-> FALSE,
     resume |-> FALSE, scope |-> "",
     agreed |-> IdsOf(before) = {IdOfFilename(k) : k \in Listing(remote)}]

OpRec(kind, todo, list, prev) ==
    OpRecIn(kind, todo, list, prev, todos, pending = <<>> /\ ha = None, TRUE)

NoTodo == Item(0, "", FALSE, selectedDate)

\* the `finally` of an operation: the hook arms setTimeout(() =>
\* isSavingRef.current = false, 100); the store clears isSaving at once
\* a variant of the `finally` that leaves the flag as it is
SavingLeftUp == isSaving

SavingAfterFinally == IF engine = "store" THEN FALSE ELSE isSaving

TimersAfterFinally == IF engine = "store" THEN timers ELSE timers + 1

\* what the caller of a settled operation sees: every operation catches the
\* store error and returns normally, so the promise is fulfilled either way
PromiseOf(ok) == "fulfilled"

Settled(op, ok) ==
    [kind |-> op.kind, before |-> op.before, failed |-> ~ok, seq |-> op.seq,
     clean |-> op.clean, promise |-> PromiseOf(ok), todo |-> op.todo,
     list |-> op.list, src |-> op.src, agreed |-> op.agreed,
     scope |-> op.scope]

\* the `finally` of operation i, and the return to handleAction when it
\* awaits this operation: its own `finally` (setIsLoading(false)) after the
\* closing setAllTodos or addTodo, the rest of the loop after an operation
\* awaited inside the loop
FinishOp(i, ok) ==
    LET op == pending[i] IN
    /\ isSaving' = SavingAfterFinally
    /\ timers' = TimersAfterFinally
    /\ pending' = RemoveAt(pending, i)
    /\ last' = Settled(op, ok)
    /\ IF op.awaited
       THEN /\ ha' = None
            /\ uiLoading' = FALSE
            /\ lastHA' = [kind |-> "ha", text |-> ha.text, before |-> ha.todos,
                          path |-> ha.kind, actions |-> ha.actions,
                          failed |-> ~ok, clean |-> ha.clean /\ op.clean,
                          alone |-> ha.alone /\ op.seq,
                          sideFailed |-> ha.sideFailed]
       ELSE /\ ha' = IF op.resume
                     THEN [ha EXCEPT !.kind = "resumed",
                                     !.sideFailed = ha.sideFailed \/ ~ok]
                     ELSE IF ha # None /\ op.src = "ha" /\ ~ok
                     THEN [ha EXCEPT !.sideFailed = TRUE] ELSE ha
            /\ lastHA' = IF lastHA # None /\ op.src = "ha" /\ ~ok
                         THEN [lastHA EXCEPT !.sideFailed = TRUE] ELSE lastHA
            /\ UNCHANGED uiLoading

\* handleAction is about to go on with its loop: the continuation of an
\* `await` runs before any other callback
Resuming == ha.kind = "resumed"

MarkDirty(ops) == MapSeq(ops, LAMBDA o : [o EXCEPT !.clean = FALSE])

\* history: the operations in flight are no longer alone once another starts
Overlapped(ops) == MapSeq(ops, LAMBDA o : [o EXCEPT !.seq = FALSE])

CanInvoke == nOps > 0 /\ ha = None

(***************************************************************************)
(* loadTodos.                                                              *)
(***************************************************************************)
\* a variant of the load that gives up on every document
LoadedNone(r, bad) == <<>>

\* the items a load builds from the listing, the documents in `bad` failing
\* to be read (the per-file catch returns null) and the documents without
\* a todo_item_text being passed over (null as well); the nulls are
\* filtered out afterwards
LoadedFrom(r, bad) ==
    LET read == {k \in Listing(r) \ bad : "todo_item_text" \in DOMAIN r[k]}
        S == {Decode(k, r[k]) : k \in read}
    IN SetToSeq({<<t.id, t>> : t \in S})

LoadedTodos(r, bad) == MapSeq(LoadedFrom(r, bad), LAMBDA p : p[2])

\* a variant of the guard that never sees a load in flight
NeverLoading == FALSE

\* the guard of loadTodos: loadingRef.current / isLoading of the store
AlreadyLoading == loading

\* loadTodos up to its first await: the guard and the in-flight marker
StartLoad ==
    /\ ~AlreadyLoading
    /\ loading' = TRUE
    /\ load' = [kind |-> "listing"]

\* getListing and the getObject calls resolve (hook); todonna.getAll()
\* resolves (store). A failed listing, or a failed getAll, rejects.
LoadFetch ==
    /\ ~Resuming
    /\ load.kind = "listing"
    /\ \/ load' = [kind |-> "fetched", failed |-> TRUE, result |-> <<>>,
                   unread |-> {}]
       \/ \E bad \in SUBSET Listing(remote) :
            /\ Cardinality(bad) <= 1
            /\ engine # "hook" => bad = {}
            /\ load' = [kind |-> "fetched", failed |-> FALSE,
                        result |-> LoadedTodos(remote, bad), unread |-> bad]
    /\ UNCHANGED <<engine, conn, todos, remote, isInitialized, isSaving, loading, pending,
                   timers, notif, ha, sortBy, uiLoading, last, lastNotif, lastHA,
                   issued, nOps, nExt, speech>>

\* the continuation of loadTodos: setTodos(loaded) or, in the catch,
\* setTodos([]); initialized; the in-flight marker cleared
LoadSettle ==
    LET waiting == {i \in 1..Len(pending) : pending[i].stage = "reload"} IN
    /\ ~Resuming
    /\ load.kind = "fetched"
    /\ todos' = IF load.failed THEN <<>> ELSE load.result
    /\ isInitialized' = TRUE
    /\ loading' = FALSE
    /\ load' = None
    \* a clear operation of the store that awaits this load runs its finally
    /\ pending' = MarkDirty(SelectSeq(pending, LAMBDA o : o.stage # "reload"))
    /\ isSaving' = IF waiting # {} THEN SavingAfterFinally ELSE isSaving
    /\ timers' = IF waiting # {} THEN TimersAfterFinally ELSE timers
    /\ last' = IF waiting # {}
               THEN Settled(pending[CHOOSE i \in waiting : TRUE], TRUE)
               ELSE None
    /\ ha' = IF ha = None THEN ha
             ELSE IF \E i \in waiting : pending[i].resume
             THEN [ha EXCEPT !.kind = "resumed",
                             !.sideFailed = ha.sideFailed \/ load.failed]
             ELSE [ha EXCEPT !.clean = FALSE]
    /\ lastHA' = None
    /\ UNCHANGED <<engine, conn, remote, notif, sortBy, uiLoading, lastNotif,
                   issued, nOps, nExt, speech>>

(***************************************************************************)
(* addTodo.                                                                *)
(***************************************************************************)
AddTodo(todo) ==
    /\ CanInvoke
    /\ todo.id \notin IdsOf(todos)
    /\ isSaving' = TRUE
    /\ todos' = Append(todos, serializeTodo(todo))
    /\ pending' = Append(Overlapped(pending), OpRec("add", todo, <<>>, todos))
    /\ nOps' = nOps - 1
    /\ last' = None
    /\ lastHA' = None
    /\ UNCHANGED <<engine, conn, remote, isInitialized, loading, load, timers, notif, ha,
                   sortBy, uiLoading, lastNotif, issued, nExt, speech>>

\* hook: setTodos(prev => prev.filter(t => t.id !== todo.id))
RollbackAddHook(op) == WithoutId(todos, op.todo.id)

\* store: set({ todos: todos.filter((t) => t.id !== todo.id) }), `todos`
\* being the collection read when addTodo was called
RollbackAddStore(op) == WithoutId(op.prev, op.todo.id)

\* a variant without the rollback: the optimistic collection is kept
KeepOptimistic(op) == todos

\* the rollback of update / remove / setAllTodos: the captured collection
RollbackToPrevious(op) == op.prev

\* todonna.add(todo) of the data module
ModuleAdd(r, todo) == Put(r, Filename(todo.id), Encode(todo))

\* todonna.update(id, fields) of the data module, called with every field
ModuleUpdate(r, todo) == Put(r, Filename(todo.id), Encode(todo))

AddSettle(i, ok) ==
    LET op == pending[i] IN
    /\ op.kind = "add"
    /\ IF ok
       THEN /\ remote' = IF engine = "hook"
                         THEN Put(remote, Filename(op.todo.id), Encode(op.todo))
                         ELSE ModuleAdd(remote, op.todo)
            /\ notif' = TRUE
            /\ todos' = todos
       ELSE /\ todos' = IF engine = "store" THEN RollbackAddStore(op)
                        ELSE RollbackAddHook(op)
            /\ UNCHANGED <<remote, notif>>
    /\ FinishOp(i, ok)
    /\ UNCHANGED <<engine, conn, isInitialized, loading, load, sortBy, lastNotif, issued,
                   nOps, nExt, speech>>

(***************************************************************************)
(* updateTodo, and toggleTodo / handleEditTodo / the store's soft          *)
(* deleteTodo, which call it.                                              *)
(***************************************************************************)
UpdateCall(todo) ==
    /\ isSaving' = TRUE
    /\ todos' = ReplaceById(todos, todo)
    /\ pending' = Append(Overlapped(pending), OpRec("update", todo, <<>>, todos))

UpdateTodo(todo) ==
    /\ CanInvoke
    /\ UpdateCall(todo)
    /\ nOps' = nOps - 1
    /\ last' = None
    /\ lastHA' = None
    /\ UNCHANGED <<engine, conn, remote, isInitialized, loading, load, timers, notif, ha,
                   sortBy, uiLoading, lastNotif, issued, nExt, speech>>

\* toggleTodo(id)
ToggleTodo ==
    \E i \in 1..Len(todos) :
        UpdateTodo([todos[i] EXCEPT !.completed = ~todos[i].completed])

\* handleEditTodo(updatedTodo) with a changed text
EditTodo ==
    \E i \in 1..Len(todos) : \E x \in Texts :
        /\ x # todos[i].text
        /\ UpdateTodo(serializeTodo([todos[i] EXCEPT !.text = x]))

\* deleteTodo(id) of the store: updateTodo({ ...todo, removed: true })
SoftDeleteTodo ==
    /\ engine = "store"
    /\ \E i \in 1..Len(todos) : UpdateTodo([todos[i] EXCEPT !.removed = TRUE])

UpdateSettle(i, ok) ==
    LET op == pending[i] IN
    /\ op.kind = "update"
    /\ IF ok
       THEN /\ remote' = IF engine = "hook"
                         THEN Put(remote, Filename(op.todo.id), Encode(op.todo))
                         ELSE ModuleUpdate(remote, op.todo)
            /\ notif' = TRUE
            /\ todos' = todos
       ELSE /\ todos' = RollbackToPrevious(op)
            /\ UNCHANGED <<remote, notif>>
    /\ FinishOp(i, ok)
    /\ UNCHANGED <<engine, conn, isInitialized, loading, load, sortBy, lastNotif, issued,
                   nOps, nExt, speech>>

(***************************************************************************)
(* deleteTodo of the hook: the hard remove.                                *)
(***************************************************************************)
RemoveTodo ==
    /\ engine = "hook"
    /\ CanInvoke
    /\ \E i \in 1..Len(todos) :
        /\ isSaving' = TRUE
        /\ todos' = WithoutId(todos, todos[i].id)
        /\ pending' = Append(Overlapped(pending), OpRec("remove", todos[i], <<>>, todos))
    /\ nOps' = nOps - 1
    /\ last' = None
    /\ lastHA' = None
    /\ UNCHANGED <<engine, conn, remote, isInitialized, loading, load, timers, notif, ha,
                   sortBy, uiLoading, lastNotif, issued, nExt, speech>>

RemoveSettle(i, ok) ==
    LET op == pending[i] IN
    /\ op.kind = "remove"
    /\ IF ok
       THEN /\ remote' = Delete(remote, Filename(op.todo.id))
            /\ notif' = TRUE
            /\ todos' = todos
       ELSE /\ todos' = RollbackToPrevious(op)
            /\ UNCHANGED <<remote, notif>>
    /\ FinishOp(i, ok)
    /\ UNCHANGED <<engine, conn, isInitialized, loading, load, sortBy, lastNotif, issued,
                   nOps, nExt, speech>>

(***************************************************************************)
(* setAllTodos (replaceAll).                                               *)
(***************************************************************************)
\* the synchronous part: the flag, the snapshot, the optimistic set
SetAllCall(newTodos, prev, src, awaited) ==
    /\ isSaving' = TRUE
    /\ todos' = ActiveOf(newTodos)
    /\ pending' = Append(Overlapped(pending),
          [OpRec("setAll", NoTodo, newTodos, prev) EXCEPT
              !.stage = IF engine = "hook" THEN "listing" ELSE "call",
              !.src = src, !.awaited = awaited])

\* the puts the hook prepares: one storeFile per non-removed item of newTodos
PutsOf(newTodos) ==
    MapSeq(SelectSeq(newTodos, LAMBDA t : ~t.removed),
           LAMBDA t : [key |-> Filename(t.id), doc |-> Encode(t)])

\* activeIds: the filenames of the non-removed items
ActiveIds(newTodos) == {Filename(t.id) : t \in {x \in Range(newTodos) : ~x.removed}}

\* a variant that removes every listed key, active or not
DeleteEveryKey(existingKeys, newTodos) == SetToSeq(existingKeys)

\* the deletes the hook prepares: every existing key that is not active
DeletesOf(existingKeys, newTodos) ==
    SetToSeq({k \in existingKeys : k \notin ActiveIds(newTodos)})

\* todonna.replaceAll(active) of the data module: the fresh listing, a put
\* for every item that is new or whose document changed, a delete for every
\* document that is no longer in the set
ModulePuts(r, active) ==
    MapSeq(SelectSeq(active, LAMBDA t : r[Filename(t.id)] # Encode(t)),
           LAMBDA t : [key |-> Filename(t.id), doc |-> Encode(t)])

ModuleDeletes(r, active) ==
    SetToSeq({k \in Listing(r) : k \notin {Filename(t.id) : t \in Range(active)}})

\* history: the keys among `puts` whose document is already what is stored
Unchanged(r, puts) == {w.key : w \in {x \in Range(puts) : r[x.key] = x.doc}}

RECURSIVE ApplyPuts(_, _, _, _)
ApplyPuts(r, puts, i, fail) ==
    IF i > Len(puts) THEN r
    ELSE ApplyPuts(IF i \in fail THEN r ELSE Put(r, puts[i].key, puts[i].doc),
                   puts, i + 1, fail)

RECURSIVE ApplyDeletes(_, _, _, _, _)
ApplyDeletes(r, deletes, i, off, fail) ==
    IF i > Len(deletes) THEN r
    ELSE ApplyDeletes(IF (off + i) \in fail THEN r ELSE Delete(r, deletes[i]),
                      deletes, i + 1, off, fail)

\* the store after the concurrent writes, those numbered in `fail` rejected
ApplyWrites(r, puts, deletes, fail) ==
    ApplyDeletes(ApplyPuts(r, puts, 1, fail), deletes, 1, Len(puts), fail)

\* which of n concurrent writes reject: none, or one of them
FailSets(n) == {{}} \cup {{j} : j \in 1..n}

\* a list handed to setAllTodos by a caller other than handleAction
ReplaceInputs ==
    {RemoveAt(todos, i) : i \in 1..Len(todos)}
    \cup {[todos EXCEPT ![i].completed = ~todos[i].completed] : i \in 1..Len(todos)}

SetAllTodos ==
    /\ CanInvoke
    /\ \E newTodos \in ReplaceInputs : SetAllCall(newTodos, todos, "user", FALSE)
    /\ nOps' = nOps - 1
    /\ last' = None
    /\ lastHA' = None
    /\ UNCHANGED <<engine, conn, remote, isInitialized, loading, load, timers, notif, ha,
                   sortBy, uiLoading, lastNotif, issued, nExt, speech>>

\* hook: getListing("") resolves and the puts and deletes are issued, or it
\* rejects and the catch rolls back
SetAllListing(i, ok) ==
    LET op == pending[i]
        puts == PutsOf(op.list)
        deletes == DeletesOf(Listing(remote), op.list)
    IN
    /\ op.kind = "setAll" /\ op.stage = "listing"
    /\ IF ok
       THEN /\ pending' = [pending EXCEPT ![i] =
                    [op EXCEPT !.stage = "writing", !.puts = puts,
                               !.deletes = deletes]]
            /\ issued' = [kind |-> "setAll", listing |-> Listing(remote),
                          list |-> op.list, puts |-> MapSeq(puts, LAMBDA w : w.key),
                          deletes |-> deletes, same |-> Unchanged(remote, puts)]
            /\ UNCHANGED <<todos, isSaving, timers, last, ha, uiLoading, lastHA>>
       ELSE /\ todos' = RollbackToPrevious(op)
            /\ FinishOp(i, FALSE)
            /\ UNCHANGED issued
    /\ UNCHANGED <<engine, conn, remote, isInitialized, loading, load, notif, sortBy,
                   lastNotif, nOps, nExt, speech>>

\* Promise.all over the puts and deletes settles (hook); replaceAll of the
\* data module settles (store)
SetAllSettle(i, listingOk, fail) ==
    LET op == pending[i]
        active == SelectSeq(op.list, LAMBDA t : ~t.removed)
        puts == IF engine = "hook" THEN op.puts ELSE ModulePuts(remote, active)
        deletes == IF engine = "hook" THEN op.deletes
                   ELSE ModuleDeletes(remote, active)
        n == Len(puts) + Len(deletes)
        ok == listingOk /\ fail = {}
    IN
    /\ op.kind = "setAll"
    /\ op.stage = IF engine = "hook" THEN "writing" ELSE "call"
    /\ engine = "hook" => listingOk
    /\ IF listingOk THEN fail \in FailSets(n) ELSE fail = {}
    /\ remote' = IF listingOk THEN ApplyWrites(remote, puts, deletes, fail)
                 ELSE remote
    /\ notif' = IF remote' # remote THEN TRUE ELSE notif
    /\ todos' = IF ok THEN todos ELSE RollbackToPrevious(op)
    /\ issued' = IF engine = "hook" THEN issued
                 ELSE IF listingOk
                 THEN [kind |-> "setAll", listing |-> Listing(remote),
                       list |-> op.list, puts |-> MapSeq(puts, LAMBDA w : w.key),
                       deletes |-> deletes, same |-> Unchanged(remote, puts)]
                 ELSE None
    /\ FinishOp(i, ok)
    /\ UNCHANGED <<engine, conn, isInitialized, loading, load, sortBy, lastNotif, nOps,
                   nExt, speech>>

(***************************************************************************)
(* clearAllTodos / clearCompletedTodos / clearIncompleteTodos.             *)
(***************************************************************************)
Scopes == {"all", "completed", "incomplete"}

isOnSelectedDate(t) == t.date = selectedDate

InScope(t, scope) ==
    /\ isOnSelectedDate(t)
    /\ scope = "completed" => t.completed
    /\ scope = "incomplete" => ~t.completed

\* the remaining items the applicator of the hook hands to setAllTodos
Remaining(s, scope) == SelectSeq(s, LAMBDA t : ~InScope(t, scope))

\* todonna.clearByDate / clearCompletedByDate / clearIncompleteByDate of the
\* data module: the documents of that date in the scope are deleted
ModuleClear(r, scope) ==
    [k \in Keys |-> IF r[k] # NoDoc /\ InScope(Decode(k, r[k]), scope)
                    THEN NoDoc ELSE r[k]]

ClearTodos(scope) ==
    /\ CanInvoke
    /\ IF engine = "hook"
       THEN SetAllCall(Remaining(todos, scope), todos, "user", FALSE)
       ELSE /\ isSaving' = TRUE
            /\ pending' = Append(Overlapped(pending),
                  [OpRec("clear", NoTodo, <<>>, todos)
                     EXCEPT !.stage = scope, !.scope = scope])
            /\ todos' = todos
    /\ nOps' = nOps - 1
    /\ last' = None
    /\ lastHA' = None
    /\ UNCHANGED <<engine, conn, remote, isInitialized, loading, load, timers, notif, ha,
                   sortBy, uiLoading, lastNotif, issued, nExt, speech>>

\* store: the clear call of the data module settles; on success the
\* operation goes on to `await get().loadTodos()`, which returns at once
\* when a load is already in flight
ClearSettle(i, ok) ==
    LET op == pending[i] IN
    /\ engine # "hook"
    /\ op.kind = "clear" /\ op.stage \in Scopes
    /\ IF ok
       THEN /\ remote' = ModuleClear(remote, op.stage)
            /\ notif' = IF remote' # remote THEN TRUE ELSE notif
            /\ IF AlreadyLoading
               THEN /\ FinishOp(i, TRUE)
                    /\ UNCHANGED <<loading, load>>
               ELSE /\ loading' = TRUE
                    /\ load' = [kind |-> "listing"]
                    /\ pending' = [pending EXCEPT ![i].stage = "reload"]
                    /\ UNCHANGED <<isSaving, timers, last, ha, uiLoading, lastHA>>
       ELSE /\ FinishOp(i, FALSE)
            /\ UNCHANGED <<remote, notif, loading, load>>
    /\ UNCHANGED <<engine, conn, todos, isInitialized, sortBy, lastNotif, issued, nOps,
                   nExt, speech>>

(***************************************************************************)
(* The change-loop guard.                                                  *)
(***************************************************************************)
\* the setTimeout callback of a hook operation: isSavingRef.current = false
TimerFire ==
    /\ ~Resuming
    /\ timers > 0
    /\ timers' = timers - 1
    /\ isSaving' = FALSE
    /\ UNCHANGED <<engine, conn, todos, remote, isInitialized, loading, load, pending,
                   notif, ha, sortBy, uiLoading, last, lastNotif, lastHA, issued,
                   nOps, nExt, speech>>

\* a variant of the condition that does not look at the saving flag
GuardIgnoringSaving == isInitialized /\ ~loading

\* the condition of changeHandler
ChangeGuard == isInitialized /\ ~isSaving /\ ~loading

\* a self-initiated write is in flight, or its settle delay has not ended
InGuardWindow == pending # <<>> \/ timers > 0

\* the onChange callback runs
ChangeHandler ==
    /\ ~Resuming
    /\ notif
    /\ notif' = FALSE
    /\ IF ChangeGuard
       THEN StartLoad
       ELSE UNCHANGED <<loading, load>>
    /\ lastNotif' = [kind |-> "notif", initialized |-> isInitialized,
                     saving |-> isSaving, reloading |-> load # None,
                     window |-> InGuardWindow, acted |-> load' # load]
    /\ UNCHANGED <<engine, conn, todos, remote, isInitialized, isSaving, pending, timers,
                   ha, sortBy, uiLoading, last, lastHA, issued, nOps, nExt, speech>>

\* another device writes or removes a document of the scope
ExternalWrite ==
    /\ nExt > 0
    /\ \E k \in {Filename(1)} :
        \/ remote' = Put(remote, k, Encode(Item(IdOfFilename(k), "b", FALSE,
                                                 selectedDate)))
        \/ /\ remote[k] # NoDoc
           /\ remote' = Delete(remote, k)
    /\ remote' # remote
    /\ notif' = TRUE
    /\ nExt' = nExt - 1
    /\ UNCHANGED <<engine, conn, todos, isInitialized, isSaving, loading, load, pending,
                   timers, ha, sortBy, uiLoading, last, lastNotif, lastHA, issued,
                   nOps, speech>>

(***************************************************************************)
(* handleAction: the action applicator.                                    *)
(***************************************************************************)
\* a variant that leaves the text as it is
NoTrim(text) == text

\* text.trim()
Trim(text) == IF text = " " THEN "" ELSE text

Act(action, text, todoId, status) ==
    [action |-> action, text |-> text, todoId |-> todoId, status |-> status,
     time |-> "", listToClear |-> ""]

ClearAct(scope) == [Act("clear", "", 0, "") EXCEPT !.listToClear = scope]

\* the actions determineAction may return for the items it was shown
ActionsFor(filtered) ==
    {Act("add", "b", 0, "")}
    \cup {Act("delete", "", id, "") : id \in IdsOf(filtered)}
    \cup {Act("mark", "", id, st) : id \in IdsOf(filtered),
                                   st \in {"complete", "incomplete", "toggle"}}
    \cup {Act("sort", "oldest", 0, "")}

\* mark and sort actions determineAction may return
MarkActions(filtered) ==
    {a \in ActionsFor(filtered) : a.action \in {"mark", "sort"}}

\* edit and clear actions determineAction may return
EditActions(filtered) == {Act("edit", "b", id, "") : id \in IdsOf(filtered)}

ClearActions == {ClearAct(scope) : scope \in Scopes}

\* edit actions without a text: a desired state only, or a time only
FieldEdits(filtered) ==
    {Act("edit", "", id, "complete") : id \in IdsOf(filtered)}
    \cup {[Act("edit", "", id, "") EXCEPT !.time = "09:30"] : id \in IdsOf(filtered)}

\* actions that name an item the collection does not hold
StaleActions(s) ==
    UNION {{Act("delete", "", id, ""), Act("mark", "", id, "complete"),
            Act("edit", "b", id, "")} : id \in Ids \ IdsOf(s)}

\* batches of two actions whose order matters, and batches that start with
\* a stale action
Pairs(s, filtered) ==
    {<<Act("add", "b", 0, ""), Act("mark", "", id, "complete")>> :
        id \in IdsOf(filtered)}
    \cup {<<Act("add", "b", 0, ""), ClearAct("completed")>>}
    \cup {<<x, Act("add", "b", 0, "")>> : x \in StaleActions(s)}
    \cup {<<x>> : x \in StaleActions(s)}

Batches(filtered) ==
    UNION {[1..n -> ActionsFor(filtered)] : n \in 1..MaxBatch}

\* a variant that hands the whole collection over
NotFiltered(s) == s

\* the items of the selected date that are not removed
FilteredTodos(s) == SelectSeq(s, LAMBDA t : isOnSelectedDate(t) /\ ~t.removed)

\* Math.random().toString(36).substring(7): an id no item or document has
FreshIds(used) == {i \in Ids : i \notin used}

UsedIds(c) == IdsOf(c.todos) \cup IdsOf(c.newTodos)
              \cup {IdOfFilename(k) : k \in Listing(remote)}

NewId(c) == CHOOSE i \in FreshIds(UsedIds(c)) : \A j \in FreshIds(UsedIds(c)) : i <= j

\* a variant in which every mark completes the item
MarkedComplete(t, status) == TRUE

\* the completion a mark action gives an item
MarkedAs(t, status) ==
    IF status = "complete" THEN TRUE
    ELSE IF status = "incomplete" THEN FALSE
    ELSE ~t.completed

\* case 'delete' of the store: get().deleteTodo(id), which calls updateTodo
\* without awaiting it; updateTodo runs up to its store call
DeleteViaUpdate(c, id) ==
    LET found == SelectSeq(c.todos, LAMBDA t : t.id = id)
        todo == [found[1] EXCEPT !.removed = TRUE]
    IN IF found = <<>> THEN c
       ELSE [c EXCEPT
               !.isSaving = TRUE,
               !.todos = ReplaceById(c.todos, todo),
               !.pending = Append(Overlapped(c.pending),
                    [OpRecIn("update", todo, <<>>, c.todos, c.todos, FALSE, c.clean)
                       EXCEPT !.src = "ha"])]

\* case 'delete' of the applicator of the hook: the item is marked removed
\* in the working copy
DeleteInCopy(c, id) ==
    [c EXCEPT !.newTodos =
        MapSeq(c.newTodos, LAMBDA t : IF t.id = id THEN [t EXCEPT !.removed = TRUE]
                                       ELSE t)]

\* case 'edit' of the applicator of the hook: text and time of the item in
\* the working copy, `action.time || todo.time`
EditInCopy(c, a) ==
    [c EXCEPT !.newTodos =
        MapSeq(c.newTodos, LAMBDA t :
            IF t.id = a.todoId
            THEN serializeTodo([t EXCEPT !.text = a.text,
                                         !.time = IF a.time # "" THEN a.time ELSE @])
            ELSE t)]

\* the completion the edit gives the item: the store keeps it unless the
\* action says complete; useTodoActions sets it to whether the action says
\* complete
EditedCompletion(todo, a) ==
    IF engine = "actions" THEN a.status = "complete"
    ELSE IF a.status = "complete" THEN TRUE ELSE todo.completed

\* case 'edit' of the store: the item is looked up in the collection read
\* when handleAction was called, and updateTodo is awaited
EditViaUpdate(c, a) ==
    LET found == SelectSeq(c.base, LAMBDA t : t.id = a.todoId)
        updated == serializeTodo(
            [found[1] EXCEPT !.text = a.text,
                             !.time = IF a.time # "" THEN a.time ELSE @,
                             !.completed = EditedCompletion(found[1], a)])
    IN IF found = <<>> THEN c
       ELSE [c EXCEPT
               !.isSaving = TRUE,
               !.todos = ReplaceById(c.todos, updated),
               !.pending = Append(Overlapped(c.pending),
                    [OpRecIn("update", updated, <<>>, c.todos, c.todos, FALSE, c.clean)
                       EXCEPT !.src = "ha", !.resume = TRUE]),
               !.awaiting = TRUE]

\* case 'clear' of the applicator of the hook: the working copy becomes the
\* collection of the call without the items in the scope
ClearInCopy(c, scope) == [c EXCEPT !.newTodos = Remaining(c.base, scope)]

\* case 'clear' of the store: clearAllTodos / clearCompletedTodos /
\* clearIncompleteTodos is awaited
ClearViaModule(c, scope) ==
    [c EXCEPT
       !.isSaving = TRUE,
       !.pending = Append(Overlapped(c.pending),
            [OpRecIn("clear", NoTodo, <<>>, c.todos, c.todos, FALSE, c.clean)
               EXCEPT !.stage = scope, !.scope = scope, !.src = "ha",
                      !.resume = TRUE]),
       !.awaiting = TRUE]

\* a variant of the iteration that hands every action naming an item to an
\* individual update, as case 'delete' of the store does
ApplyViaUpdate(c, a, text) ==
    IF a.todoId = 0 THEN c ELSE DeleteViaUpdate(c, a.todoId)

\* one iteration of the loop over the actions
ApplyAction(c, a, text) ==
    CASE a.action = "add" ->
            [c EXCEPT !.newTodos = Append(c.newTodos,
                serializeTodo(Item(NewId(c), IF a.text # "" THEN a.text ELSE text,
                                   FALSE, selectedDate)))]
      [] a.action = "delete" ->
            IF a.todoId = 0 THEN c
            ELSE IF engine # "hook" THEN DeleteViaUpdate(c, a.todoId)
            ELSE DeleteInCopy(c, a.todoId)
      [] a.action = "mark" ->
            IF a.todoId = 0 THEN c
            ELSE [c EXCEPT !.newTodos =
                    MapSeq(c.newTodos, LAMBDA t :
                        IF t.id = a.todoId
                        THEN [t EXCEPT !.completed = MarkedAs(t, a.status)]
                        ELSE t)]
      [] a.action = "sort" ->
            IF a.text = "" THEN c ELSE [c EXCEPT !.sortBy = a.text]
      [] a.action = "edit" ->
            IF a.todoId = 0 \/ a.text = "" THEN c
            ELSE IF engine # "hook" THEN EditViaUpdate(c, a)
            ELSE EditInCopy(c, a)
      [] a.action = "clear" ->
            IF a.listToClear \notin Scopes THEN c
            ELSE IF engine # "hook" THEN ClearViaModule(c, a.listToClear)
            ELSE ClearInCopy(c, a.listToClear)
      [] OTHER -> c

\* a variant of the loop that gives up at the first action that changes
\* nothing
RECURSIVE RunUntilNoop(_, _, _, _)
RunUntilNoop(c, actions, i, text) ==
    IF i > Len(actions) \/ c.awaiting THEN [c EXCEPT !.next = i]
    ELSE IF ApplyAction(c, actions[i], text) = c
    THEN [c EXCEPT !.next = Len(actions) + 1]
    ELSE RunUntilNoop(ApplyAction(c, actions[i], text), actions, i + 1, text)

\* the loop from action i on, up to its end or to the first operation it
\* awaits
RECURSIVE RunActions(_, _, _, _)
RunActions(c, actions, i, text) ==
    IF i > Len(actions) \/ c.awaiting THEN [c EXCEPT !.next = i]
    ELSE RunActions(ApplyAction(c, actions[i], text), actions, i + 1, text)

\* how many add actions a batch holds
Adds(actions) == Cardinality({i \in 1..Len(actions) : actions[i].action = "add"})

\* handleAction up to its first await: the guard on the trimmed text, the
\* loading flag, the working copy, the call of determineAction
HandleAction(text) ==
    /\ nOps > 0 /\ ha = None
    /\ nOps' = nOps - 1
    /\ last' = None
    /\ IF Trim(text) = ""
       THEN /\ lastHA' = [kind |-> "ha", text |-> text, before |-> todos,
                          path |-> "empty", actions |-> <<>>, failed |-> FALSE,
                          clean |-> TRUE, alone |-> pending = <<>>,
                          sideFailed |-> FALSE]
            /\ UNCHANGED <<ha, uiLoading>>
       ELSE /\ ha' = [kind |-> "interp", text |-> text, todos |-> todos,
                      filtered |-> FilteredTodos(todos), actions |-> <<>>,
                      newTodos |-> todos, next |-> 1, second |-> FALSE,
                      clean |-> TRUE, alone |-> pending = <<>>,
                      sideFailed |-> FALSE]
            /\ uiLoading' = TRUE
            /\ lastHA' = None
    /\ UNCHANGED <<engine, conn, todos, remote, isInitialized, isSaving, loading, load,
                   pending, timers, notif, sortBy, lastNotif, issued, nExt>>

\* handleAction called while an earlier call is in flight: nothing in it
\* looks at the call in flight, so it too goes on to determineAction; the
\* second call is recorded and not followed further
SecondCall(text) ==
    /\ nOps > 0 /\ ha # None
    /\ Trim(text) # ""
    /\ nOps' = nOps - 1
    /\ ha' = [ha EXCEPT !.second = TRUE]
    /\ UNCHANGED <<engine, conn, todos, remote, isInitialized, isSaving, loading, load,
                   pending, timers, notif, sortBy, uiLoading, last, lastNotif,
                   lastHA, issued, nExt>>

\* a variant of the fallback item that is born completed
FallbackCompleted(c, text) == Item(NewId(c), text, TRUE, selectedDate)

\* the item the catch of handleAction builds from the raw text
FallbackTodo(c, text) == serializeTodo(Item(NewId(c), text, FALSE, selectedDate))

\* determineAction rejects: the catch adds the raw text as a new item
InterpreterFails ==
    LET c == [todos |-> todos, newTodos |-> <<>>]
        fallbackTodo == FallbackTodo(c, ha.text)
    IN
    /\ ha.kind = "interp"
    /\ FreshIds(UsedIds(c)) # {}
    /\ isSaving' = TRUE
    /\ todos' = Append(todos, serializeTodo(fallbackTodo))
    /\ pending' = Append(Overlapped(pending),
          [OpRecIn("add", fallbackTodo, <<>>, todos, todos, pending = <<>>, ha.clean)
             EXCEPT !.src = "ha", !.awaited = TRUE])
    /\ ha' = [ha EXCEPT !.kind = "fallback"]
    /\ UNCHANGED <<engine, conn, remote, isInitialized, loading, load, timers, notif,
                   sortBy, uiLoading, last, lastNotif, lastHA, issued, nOps, nExt, speech>>

\* the state the loop works on
LoopContext ==
    [todos |-> todos, pending |-> pending, isSaving |-> isSaving,
     sortBy |-> sortBy, newTodos |-> ha.newTodos, clean |-> ha.clean,
     base |-> ha.todos, awaiting |-> FALSE, next |-> ha.next]

\* the loop over the actions from ha.next on: it stops at an operation it
\* awaits, or ends and calls setAllTodos(newTodos)
LoopStep(actions) ==
    LET c == RunActions(LoopContext, actions, ha.next, ha.text)
        prev == IF engine = "store" THEN c.todos ELSE ha.todos
    IN
    /\ isSaving' = TRUE
    /\ sortBy' = c.sortBy
    /\ IF c.awaiting
       THEN /\ todos' = c.todos
            /\ pending' = c.pending
            /\ ha' = [ha EXCEPT !.kind = "loop", !.actions = actions,
                                !.newTodos = c.newTodos, !.next = c.next]
       ELSE /\ todos' = ActiveOf(c.newTodos)
            /\ pending' = Append(Overlapped(c.pending),
                  [OpRecIn("setAll", NoTodo, c.newTodos, prev, c.todos,
                           c.pending = <<>>, ha.clean)
                     EXCEPT !.stage = IF engine = "hook" THEN "listing" ELSE "call",
                            !.src = "ha", !.awaited = TRUE])
            /\ ha' = [ha EXCEPT !.kind = "bulk", !.actions = actions,
                                !.newTodos = c.newTodos, !.next = c.next]
    /\ UNCHANGED <<engine, conn, remote, isInitialized, loading, load, timers, notif,
                   uiLoading, last, lastNotif, lastHA, issued, nOps, nExt, speech>>

\* determineAction resolves: the loop over the actions, then setAllTodos
InterpreterReturns(actions) ==
    /\ ha.kind = "interp"
    /\ Cardinality(FreshIds(UsedIds(LoopContext))) >= Adds(actions)
    /\ LoopStep(actions)

\* the operation awaited inside the loop has settled: the loop goes on
ContinueActions ==
    /\ ha.kind = "resumed"
    /\ LoopStep(ha.actions)

(***************************************************************************)
(* useRemoteStorage: the singleton connection.                             *)
(***************************************************************************)
\* what the engine holds, left alone by the components mounting the hook
engineVars == <<engine, todos, remote, isInitialized, isSaving, loading, load,
                pending, timers, notif, ha, sortBy, uiLoading, last, lastNotif,
                lastHA, issued, nOps, nExt, speech>>

\* a count of calls: none, one, more than one
Again(n) == IF n = 0 THEN 1 ELSE 2

\* a variant of the condition that looks at the ref of the component only
ClaimPerComponent(hasClaimedAccess, initialized, instance) == ~hasClaimedAccess

\* !hasClaimedAccess.current && !isInitialized && remoteStorageInstance
NeedsClaim(hasClaimedAccess, initialized, instance) ==
    ~hasClaimedAccess /\ ~initialized /\ instance

\* a component that calls useRemoteStorage(options) renders for the first
\* time: useRef(false), useState(remoteStorageInstance), the effect is due
Mount(c) ==
    /\ ~conn.comps[c].mounted
    /\ \E keys \in BOOLEAN :
          conn' = [conn EXCEPT !.comps[c] =
                     [mounted |-> TRUE, due |-> TRUE, hasClaimedAccess |-> FALSE,
                      apiKeys |-> keys, instance |-> conn.remoteStorageInstance]]
    /\ UNCHANGED engineVars

\* the effect of component c runs, from its first line to its last
RunEffect(c) ==
    LET me == conn.comps[c]
        fresh == ~conn.remoteStorageInstance
        initialized == IF fresh THEN FALSE ELSE conn.isInitialized
        claims == NeedsClaim(me.hasClaimedAccess, initialized, TRUE)
    IN
    /\ me.mounted /\ me.due
    /\ conn' = [conn EXCEPT
          !.remoteStorageInstance = TRUE,
          !.created = IF fresh THEN Again(@) ELSE @,
          !.keysSet = @ \/ (me.apiKeys /\ ~initialized),
          !.claimed = IF claims THEN Again(@) ELSE @,
          !.isInitialized = initialized \/ claims,
          !.comps[c] = [me EXCEPT !.due = FALSE,
                                  !.hasClaimedAccess = @ \/ claims,
                                  !.instance = @ \/ fresh]]
    /\ UNCHANGED engineVars

\* the options of a mounted component change: the effect is due again
ChangeOptions(c) ==
    /\ conn.comps[c].mounted /\ ~conn.comps[c].due
    /\ conn' = [conn EXCEPT !.comps[c].due = TRUE,
                            !.comps[c].apiKeys = ~@]
    /\ UNCHANGED engineVars

\* the component unmounts: its ref and its state go
Unmount(c) ==
    /\ conn.comps[c].mounted
    /\ conn' = [conn EXCEPT !.comps[c] = Unmounted]
    /\ UNCHANGED engineVars

\* components mounting, re-rendering and unmounting useRemoteStorage
NextConn ==
    \/ \E c \in Components : Mount(c)
    \/ \E c \in Components : RunEffect(c)
    \/ \E c \in Components : ChangeOptions(c)
    \/ \E c \in Components : Unmount(c)

SpecConn == Init /\ [][NextConn]_vars

(***************************************************************************)
(* The next-state relation.                                                *)
(***************************************************************************)
\* the items handed to addTodo: a new id, either date
NewTodoInputs ==
    LET c == [todos |-> todos, newTodos |-> <<>>] IN
    IF FreshIds(UsedIds(c)) = {} THEN {}
    ELSE {Item(NewId(c), "a", FALSE, d) : d \in Dates}

SettleAdd == ~Resuming /\ \E i \in 1..Len(pending) : \E ok \in BOOLEAN : AddSettle(i, ok)

SettleUpdate == ~Resuming /\ \E i \in 1..Len(pending) : \E ok \in BOOLEAN : UpdateSettle(i, ok)

SettleRemove == ~Resuming /\ \E i \in 1..Len(pending) : \E ok \in BOOLEAN : RemoveSettle(i, ok)

ListingSetAll == ~Resuming /\ \E i \in 1..Len(pending) : \E ok \in BOOLEAN : SetAllListing(i, ok)

SettleSetAll ==
    ~Resuming /\ \E i \in 1..Len(pending) : \E listingOk \in BOOLEAN :
        \E fail \in FailSets(MaxId + MaxBatch) : SetAllSettle(i, listingOk, fail)

SettleClear == ~Resuming /\ \E i \in 1..Len(pending) : \E ok \in BOOLEAN : ClearSettle(i, ok)

InvokeAdd == \E todo \in NewTodoInputs : AddTodo(todo)

\* addTodo handed an item whose text is empty
InvokeAddEmpty == \E todo \in NewTodoInputs : AddTodo([todo EXCEPT !.text = ""])

\* the valid items: any id, text, completion state, date, emoji and time
ValidItems ==
    {[Item(id, x, c, d) EXCEPT !.emoji = e, !.time = tm] :
        id \in Ids, x \in Texts, c \in BOOLEAN, d \in Dates,
        e \in {NoEmoji, "E"}, tm \in {NoTime, "09:30"}}

\* addTodo handed a valid item with a new id: a plain one, or one with
\* every optional field set
InvokeAddValid ==
    \E todo \in NewTodoInputs :
        \/ AddTodo(todo)
        \/ AddTodo([todo EXCEPT !.text = "b", !.completed = TRUE,
                                !.emoji = "E", !.time = "09:30"])

\* a document written by another application, without a completed field
ForeignDoc ==
    [todo_item_text |-> "b", emoji |-> NoEmoji, date |-> toISOString("D2"),
     time |-> "09:30"]

\* another application replaces the document of item 2 by such a document
ForeignWrite ==
    /\ remote[Filename(2)] \notin {NoDoc, ForeignDoc}
    /\ remote' = Put(remote, Filename(2), ForeignDoc)
    /\ notif' = TRUE
    /\ UNCHANGED <<engine, conn, todos, isInitialized, isSaving, loading, load, pending,
                   timers, ha, sortBy, uiLoading, last, lastNotif, lastHA, issued,
                   nOps, nExt, speech>>

\* a document of the scope that is not a todo item: no todo_item_text
TextlessDoc ==
    [completed |-> FALSE, emoji |-> NoEmoji, date |-> toISOString(selectedDate),
     time |-> NoTime]

\* another application replaces the document of item 2 by such a document;
\* followed for the hook, whose loadTodos reads the documents itself
TextlessWrite ==
    /\ engine = "hook"
    /\ remote[Filename(2)] \notin {NoDoc, TextlessDoc}
    /\ remote' = Put(remote, Filename(2), TextlessDoc)
    /\ notif' = TRUE
    /\ UNCHANGED <<engine, conn, todos, isInitialized, isSaving, loading, load, pending,
                   timers, ha, sortBy, uiLoading, last, lastNotif, lastHA, issued,
                   nOps, nExt, speech>>

InvokeClear == \E scope \in Scopes : ClearTodos(scope)

InvokeHandleAction ==
    /\ \E text \in {RawText, " "} : HandleAction(text)
    /\ UNCHANGED speech

\* the input bar: the textarea is rendered, and enabled, when neither the
\* loading flag nor the transcription flag is up
isProcessingSpeech == speech = "processing"

TextareaEnabled == ~(uiLoading \/ isProcessingSpeech)

\* handleInputKeyDown: Enter with text in the textarea, the loading flag down
SubmitEnter ==
    /\ TextareaEnabled /\ ~uiLoading
    /\ HandleAction(Trim(RawText))
    /\ UNCHANGED speech

\* handleSpeechResult up to `await stopRecording()`: a recording in progress
\* is stopped from the microphone button, taken to be out of reach while the
\* loading flag is up
StopRecording ==
    /\ speech = "idle" /\ ~uiLoading
    /\ nOps > 0
    /\ speech' = "stopping"
    /\ UNCHANGED <<engine, conn, todos, remote, isInitialized, isSaving, loading, load,
                   pending, timers, notif, ha, sortBy, uiLoading, last, lastNotif,
                   lastHA, issued, nOps, nExt>>

\* mediaRecorder.onstop: setIsProcessingSpeech(true), the transcription starts
RecorderStops ==
    /\ speech = "stopping"
    /\ speech' = "processing"
    /\ UNCHANGED <<engine, conn, todos, remote, isInitialized, isSaving, loading, load,
                   pending, timers, notif, ha, sortBy, uiLoading, last, lastNotif,
                   lastHA, issued, nOps, nExt>>

\* the transcription settles and handleSpeechResult goes on: with a text it
\* calls onAction(text), whatever the loading flag says
SpeechResult ==
    /\ ~Resuming
    /\ speech = "processing"
    /\ speech' = "idle"
    /\ \/ UNCHANGED <<engine, conn, todos, remote, isInitialized, isSaving, loading,
                       load, pending, timers, notif, ha, sortBy, uiLoading, last,
                       lastNotif, lastHA, issued, nOps, nExt>>
       \/ HandleAction(RawText)
       \/ SecondCall(RawText)

InterpreterResolves ==
    /\ ha.kind = "interp"
    /\ \E actions \in Batches(ha.filtered) : InterpreterReturns(actions)

\* determineAction resolves with one edit or one clear action
InterpreterEdits ==
    /\ ha.kind = "interp"
    /\ \E a \in EditActions(ha.filtered) \cup ClearActions :
          InterpreterReturns(<<a>>)

\* determineAction resolves with one edit action that carries no text
InterpreterEditsFields ==
    /\ ha.kind = "interp"
    /\ \E a \in FieldEdits(ha.filtered) : InterpreterReturns(<<a>>)

\* determineAction resolves with one mark or one sort action
InterpreterMarks ==
    /\ ha.kind = "interp"
    /\ \E a \in MarkActions(ha.filtered) : InterpreterReturns(<<a>>)

\* determineAction resolves with a batch of Pairs
InterpreterPairs ==
    /\ ha.kind = "interp"
    /\ \E actions \in Pairs(ha.todos, ha.filtered) : InterpreterReturns(actions)

Next ==
    \/ LoadFetch \/ LoadSettle \/ TimerFire
    \/ InvokeAdd \/ ToggleTodo \/ EditTodo \/ SoftDeleteTodo \/ RemoveTodo
    \/ SetAllTodos \/ InvokeClear
    \/ SettleAdd \/ SettleUpdate \/ SettleRemove \/ ListingSetAll \/ SettleSetAll
    \/ SettleClear
    \/ ChangeHandler \/ ExternalWrite
    \/ InvokeHandleAction \/ InterpreterFails \/ InterpreterResolves
    \/ InterpreterEdits \/ InterpreterPairs \/ InterpreterMarks
    \/ InterpreterEditsFields
    \/ ContinueActions
    \/ SubmitEnter \/ StopRecording \/ RecorderStops \/ SpeechResult
    \/ InvokeAddEmpty \/ InvokeAddValid \/ ForeignWrite \/ TextlessWrite
    \/ NextConn

Spec == Init /\ [][Next]_vars

\* the engine under direct operations, no other device writing
NextOps ==
    \/ LoadFetch \/ LoadSettle \/ TimerFire
    \/ InvokeAdd \/ ToggleTodo \/ SoftDeleteTodo \/ RemoveTodo \/ SetAllTodos
    \/ SettleAdd \/ SettleUpdate \/ SettleRemove \/ ListingSetAll \/ SettleSetAll

SpecOps == Init /\ [][NextOps]_vars

\* every self-initiated write, the clears included; a store call that was
\* issued resolves or rejects, a load that was started completes, and a
\* timer that was set fires
NextLive == NextOps \/ InvokeClear \/ SettleClear

Progress ==
    \/ LoadFetch \/ LoadSettle \/ TimerFire
    \/ SettleAdd \/ SettleUpdate \/ SettleRemove \/ ListingSetAll \/ SettleSetAll
    \/ SettleClear

SpecLive == Init /\ [][NextLive]_vars /\ WF_vars(Progress)

\* the same, addTodo being handed items without text as well
SpecValidate == Init /\ [][NextOps \/ InvokeAddEmpty]_vars

\* the same, with enough operations for two of them to be in flight
SpecOpsOverlap == InitOverlap /\ [][NextOps]_vars

\* the engine under operations, change notifications and another device
NextGuard ==
    \/ LoadFetch \/ LoadSettle \/ TimerFire
    \/ ToggleTodo \/ SettleUpdate
    \/ ChangeHandler \/ ExternalWrite

SpecGuard == Init /\ [][NextGuard]_vars

\* the same, with enough operations for two writes to overlap
SpecOverlap == InitOverlap /\ [][NextGuard]_vars

\* the engine under utterances
NextActions ==
    \/ LoadFetch \/ LoadSettle \/ TimerFire
    \/ SettleAdd \/ SettleUpdate \/ ListingSetAll \/ SettleSetAll
    \/ InvokeHandleAction \/ InterpreterFails \/ InterpreterResolves

SpecActions == InitActions /\ [][NextActions]_vars

\* the engine under utterances that edit or clear
NextEdit ==
    \/ LoadFetch \/ LoadSettle \/ TimerFire
    \/ SettleUpdate \/ SettleClear \/ ListingSetAll \/ SettleSetAll
    \/ InvokeHandleAction \/ InterpreterEdits \/ ContinueActions

SpecEdit == InitActions /\ [][NextEdit]_vars

\* the engine under utterances that yield batches of Pairs
NextBatch ==
    \/ LoadFetch \/ LoadSettle \/ TimerFire
    \/ SettleClear \/ ListingSetAll \/ SettleSetAll
    \/ InvokeHandleAction \/ InterpreterPairs \/ ContinueActions

SpecBatch == InitActions /\ [][NextBatch]_vars

\* the store under soft deletes and utterances
NextSoft ==
    \/ LoadFetch \/ LoadSettle \/ TimerFire
    \/ SoftDeleteTodo \/ SettleUpdate \/ ListingSetAll \/ SettleSetAll
    \/ InvokeHandleAction \/ InterpreterMarks

SpecSoft == InitOverlap /\ [][NextSoft]_vars

\* the store and the hook under every operation that rewrites an item:
\* toggle, soft delete, and utterances that mark, edit or clear
NextItems ==
    \/ NextSoft
    \/ ToggleTodo
    \/ InterpreterEdits \/ ContinueActions \/ SettleClear

SpecItems == InitOverlap /\ [][NextItems]_vars

\* handleAction called on a collection that holds items of both dates and
\* soft-deleted items, up to the call of the interpreter
NextContext ==
    \/ LoadFetch \/ LoadSettle
    \/ InvokeAdd \/ SettleAdd \/ SoftDeleteTodo \/ SettleUpdate
    \/ InvokeHandleAction

SpecContext == InitWith(MaxOverlap + 1) /\ [][NextContext]_vars

\* items written, and a document of another application, read back by the
\* load in flight
NextCodec ==
    \/ LoadFetch \/ LoadSettle
    \/ InvokeAddValid \/ SettleAdd
    \/ ForeignWrite

SpecCodec == Init /\ [][NextCodec]_vars

\* the input bar: typed and spoken submissions
NextVoice ==
    \/ LoadFetch \/ LoadSettle \/ TimerFire
    \/ SettleAdd \/ SettleUpdate \/ ListingSetAll \/ SettleSetAll
    \/ SubmitEnter \/ StopRecording \/ RecorderStops \/ SpeechResult
    \/ InterpreterFails \/ InterpreterResolves

SpecVoice == InitOverlap /\ [][NextVoice]_vars

\* the three applicators under utterances that edit or clear
SpecApplicators ==
    InitApplicators /\ [][NextEdit \/ InterpreterEditsFields]_vars

\* loads over a store in which documents fail to be read or are not todo
\* items, while the engine and another device write
SpecLoad == Init /\ [][NextGuard \/ TextlessWrite]_vars

\* the clear operations while another device writes and the change handler
\* reloads
SpecClear ==
    Init /\ [][\/ LoadFetch \/ LoadSettle \/ TimerFire
               \/ InvokeClear \/ SettleClear \/ ListingSetAll \/ SettleSetAll
               \/ ChangeHandler \/ ExternalWrite]_vars

\* everything that calls loadTodos: the initial load, the change handler
\* after a write of the engine, and the clear operations
SpecReload ==
    Init /\ [][\/ LoadFetch \/ LoadSettle \/ TimerFire
               \/ InvokeClear \/ SettleClear \/ ListingSetAll \/ SettleSetAll
               \/ ChangeHandler]_vars

(***************************************************************************)
(* Properties.                                                             *)
(***************************************************************************)
\* how often x occurs in the sequence s
CountIn(s, x) == Cardinality({i \in 1..Len(s) : s[i] = x})

\* the ids that have a document in the remote store
RemoteIds == {IdOfFilename(k) : k \in Listing(remote)}

\* nothing of the engine is in flight: no operation, no load
SettledMoment == pending = <<>> /\ load = None

C2_ReconciledAfterReplaceAll ==
    (/\ last # None
     /\ last.kind = "setAll" /\ last.agreed /\ last.seq /\ last.clean
     /\ SettledMoment)
    => IdsOf(todos) = RemoteIds

\* C3 (change-loop suppression): a change notification that arrives while a
\* self-initiated write is in flight, or before the settle delay after it
\* has ended, triggers no reload, also when writes overlap.
C3_NoReloadInsideGuardWindow ==
    (lastNotif # None /\ lastNotif.window) => ~lastNotif.acted

\* C4 (when a notification reloads): a change notification triggers a reload
\* exactly when, on arrival, the first load has completed, the saving flag is
\* down and no load is in flight; in particular never before the first load
\* has completed, and always when initialized, outside every guard window and
\* with no load in flight.
C4_ReloadIffGuard ==
    lastNotif # None =>
        /\ lastNotif.acted <=>
              (lastNotif.initialized /\ ~lastNotif.saving /\ ~lastNotif.reloading)
        /\ ~lastNotif.initialized => ~lastNotif.acted
        /\ (lastNotif.initialized /\ ~lastNotif.window /\ ~lastNotif.reloading)
              => lastNotif.acted

\* C4, reached: a notification met an initialized, idle engine and started a
\* reload
C4_NotificationReloaded ==
    /\ lastNotif # None
    /\ lastNotif.acted
    /\ load # None

\* C5 (deletes of replaceAll): setAllTodos of the hook issues exactly one
\* remove for every listed key whose id is not among the non-removed items it
\* was given, and none for any other key.
C5_DeletesAreListedMinusActive ==
    (engine = "hook" /\ issued # None) =>
        \A k \in Keys :
            CountIn(issued.deletes, k) =
                IF /\ k \in issued.listing
                   /\ IdOfFilename(k) \notin IdsOf(ActiveOf(issued.list))
                THEN 1 ELSE 0

\* C5, reached: a setAllTodos of the hook kept one listed item and removed
\* another
C5_OneKeptOneDeleted ==
    /\ engine = "hook" /\ issued # None
    /\ Len(issued.deletes) = 1
    /\ \E k \in issued.listing : IdOfFilename(k) \in IdsOf(ActiveOf(issued.list))

\* C6 (puts of replaceAll): setAllTodos issues no put for an item whose
\* document is already what the store holds.
C6_NoPutForUnchangedItem ==
    issued # None => issued.same = {}

\* C7 (interpreter fallback): when determineAction fails and the store accepts
\* the write, no other operation or reload interfering, the collection after
\* handleAction is the collection before it followed by one new item whose
\* text is the raw input and which is not completed.
C7_FallbackAddsRawText ==
    (/\ lastHA # None
     /\ lastHA.path = "fallback" /\ ~lastHA.failed
     /\ lastHA.clean /\ lastHA.alone)
    => /\ Len(todos) = Len(lastHA.before) + 1
       /\ SubSeq(todos, 1, Len(lastHA.before)) = lastHA.before
       /\ todos[Len(todos)].text = lastHA.text
       /\ todos[Len(todos)].completed = FALSE
       /\ todos[Len(todos)].id \notin IdsOf(lastHA.before)

\* C7, reached: the fallback ran over a non-empty collection and its write
\* was accepted
C7_FallbackSettled ==
    /\ lastHA # None
    /\ lastHA.path = "fallback" /\ ~lastHA.failed
    /\ lastHA.clean /\ lastHA.alone
    /\ lastHA.before # <<>>
    /\ remote[Filename(todos[Len(todos)].id)] # NoDoc

\* C8 (no lost input on bulk failure): when the store call of the bulk
\* setAllTodos of handleAction fails, the raw text is in the collection as an
\* item once handleAction has settled.
C8_BulkFailureKeepsRawText ==
    (lastHA # None /\ lastHA.path = "bulk" /\ lastHA.failed /\ lastHA.clean)
    => \E t \in Range(todos) : t.text = lastHA.text

\* C9 (failure is reported): the promise of an add / update / remove /
\* setAllTodos whose store call failed is rejected.
C9_FailureRejectsPromise ==
    (/\ last # None
     /\ last.kind \in {"add", "update", "remove", "setAll"}
     /\ last.failed)
    => last.promise = "rejected"

\* C10 (delete takes effect): after a batch with a delete of an item of the
\* active view, handleAction and every write it started having settled
\* without failure, the item is not in the active view of the collection and
\* the remote store holds no document for it.
C10_DeleteTakesEffect ==
    (/\ lastHA # None
     /\ lastHA.path = "bulk" /\ ~lastHA.failed /\ ~lastHA.sideFailed
     /\ lastHA.clean
     /\ SettledMoment)
    => \A i \in 1..Len(lastHA.actions) :
          LET a == lastHA.actions[i] IN
          (a.action = "delete" /\ a.todoId \in IdsOf(FilteredTodos(lastHA.before)))
          => /\ a.todoId \notin IdsOf(ActiveOf(todos))
             /\ remote[Filename(a.todoId)] = NoDoc

\* C15 (sort does not persist): after a batch that holds only sort actions,
\* run over a loaded collection that agrees with the store, the collection
\* is what it was and the setAllTodos that closes the batch has issued no
\* put and no delete.
C15_SortIssuesNoWrite ==
    (/\ lastHA # None /\ lastHA.path = "bulk" /\ ~lastHA.failed
     /\ lastHA.clean /\ lastHA.alone
     /\ last # None /\ last.kind = "setAll" /\ last.agreed
     /\ lastHA.before # <<>>
     /\ \A i \in 1..Len(lastHA.actions) : lastHA.actions[i].action = "sort"
     /\ issued # None)
    => /\ todos = lastHA.before
       /\ issued.puts = <<>>
       /\ issued.deletes = <<>>

\* the bulk operations in flight
BulkInFlight ==
    {i \in 1..Len(pending) : pending[i].kind \in {"setAll", "clear"}}

\* C17 (one bulk operation at a time): never are two setAllTodos / clear
\* operations in flight together.
C17_OneBulkInFlight == Cardinality(BulkInFlight) <= 1

\* the collection shows the mutation of the operation
Shows(s, op) ==
    CASE op.kind = "add" -> op.todo \in Range(s)
      [] op.kind = "update" -> op.todo \in Range(s)
      [] op.kind = "remove" -> op.todo.id \notin IdsOf(s)
      [] op.kind = "setAll" -> s = ActiveOf(op.list)
      [] OTHER -> TRUE

\* C19 (local-then-remote ordering): in the step in which an add, update,
\* remove or setAllTodos reaches its first store call, the collection
\* already shows the mutation of that operation.
C19_LocalBeforeRemote ==
    [][Len(pending') > Len(pending)
        => Shows(todos', pending'[Len(pending')])]_vars

\* C19, reached: a setAllTodos is at its first store call and the collection
\* is the list it was given, which differs from the collection before
C19_BulkShownWhileInFlight ==
    /\ pending # <<>>
    /\ pending[1].kind = "setAll" /\ pending[1].stage \in {"listing", "call"}
    /\ todos = ActiveOf(pending[1].list)
    /\ todos # pending[1].before

\* the texts that are empty after trimming
BlankTexts == {"", " "}

\* C20 (empty input): handleAction hands the interpreter no text that is
\* empty after trimming, and a call with such a text leaves the loading
\* flag, the collection, the store and the operations in flight as they were.
C20_EmptyInputIgnored ==
    [][/\ (ha = None /\ ha' # None) => ha'.text \notin BlankTexts
       /\ (nOps' # nOps /\ lastHA' # None /\ lastHA'.path = "empty")
          => /\ lastHA'.text \in BlankTexts
             /\ UNCHANGED <<todos, remote, uiLoading, ha, pending, isSaving>>]_vars

\* C20, reached: a blank text was submitted over a loaded collection
C20_BlankSubmitted ==
    /\ lastHA # None /\ lastHA.path = "empty"
    /\ lastHA.text = " "
    /\ todos # <<>>
    /\ ~uiLoading

\* handleAction has settled, and every write it started, none having failed
\* and no reload or other operation having interfered
BatchSettled ==
    /\ lastHA # None
    /\ lastHA.path = "bulk" /\ ~lastHA.failed /\ ~lastHA.sideFailed
    /\ lastHA.clean /\ lastHA.alone
    /\ SettledMoment

\* C11 (edit takes effect): after a batch with an edit of an item of the
\* collection to text t, handleAction and its writes having settled without
\* failure, the item has text t in the collection and its remote document
\* carries text t.
C11_EditTakesEffect ==
    BatchSettled =>
        \A i \in 1..Len(lastHA.actions) :
            LET a == lastHA.actions[i] IN
            (a.action = "edit" /\ a.todoId \in IdsOf(lastHA.before))
            => /\ \E t \in Range(todos) : t.id = a.todoId /\ t.text = a.text
               /\ remote[Filename(a.todoId)] # NoDoc
               /\ Decode(Filename(a.todoId), remote[Filename(a.todoId)]).text
                    = a.text

\* the items of the remote documents
RemoteItems == {Decode(k, remote[k]) : k \in Listing(remote)}

\* C12 (clear takes effect): after a batch with a clear of a scope,
\* handleAction and its writes having settled without failure, no item of
\* the selected date in that scope is in the collection or in the remote
\* store, and the items of other dates are those of before.
C12_ClearTakesEffect ==
    BatchSettled =>
        \A i \in 1..Len(lastHA.actions) :
            LET a == lastHA.actions[i] IN
            a.action = "clear"
            => /\ \A t \in Range(todos) : ~InScope(t, a.listToClear)
               /\ \A t \in RemoteItems : ~InScope(t, a.listToClear)
               /\ SelectSeq(todos, LAMBDA t : ~isOnSelectedDate(t))
                    = SelectSeq(lastHA.before, LAMBDA t : ~isOnSelectedDate(t))

\* the collection holds an item that `before` did not hold, with this text
HasNew(s, before, text) ==
    \E t \in Range(s) : t.text = text /\ t.id \notin IdsOf(before)

\* C14 (action ordering): after a batch [add, mark complete of an existing
\* item] over a loaded collection has settled the new item is present and the existing item is
\* completed; after a batch [add, clear completed] has settled the new item
\* is present.
C14_LaterActionKeepsEarlier ==
    (/\ BatchSettled
     /\ lastHA.before # <<>>
     /\ Len(lastHA.actions) = 2
     /\ lastHA.actions[1].action = "add"
     /\ lastHA.actions[2].action \in {"mark", "clear"})
    => /\ HasNew(todos, lastHA.before, lastHA.actions[1].text)
       /\ lastHA.actions[2].action = "mark"
          => \E t \in Range(todos) :
                t.id = lastHA.actions[2].todoId /\ t.completed

\* the batch of the last handleAction starts with an action on an item the
\* collection did not hold
StaleFirst ==
    /\ lastHA # None
    /\ lastHA.path # "empty" /\ lastHA.actions # <<>>
    /\ lastHA.actions[1].action \in {"delete", "mark", "edit"}
    /\ lastHA.actions[1].todoId \notin IdsOf(lastHA.before)
    /\ ~lastHA.failed /\ ~lastHA.sideFailed /\ lastHA.clean /\ lastHA.alone

\* C16 (stale references are skipped): a batch that starts with a delete,
\* mark or edit of an item the collection does not hold ends on the bulk
\* path, not on the fallback; alone it leaves the collection as it was, and
\* followed by an add it leaves the collection of before with the new item
\* appended.
C16_StaleActionSkipped ==
    StaleFirst =>
        /\ lastHA.path = "bulk"
        /\ Len(lastHA.actions) = 1 => todos = lastHA.before
        /\ (Len(lastHA.actions) = 2 /\ lastHA.actions[2].action = "add")
           => /\ Len(todos) = Len(lastHA.before) + 1
              /\ SubSeq(todos, 1, Len(lastHA.before)) = lastHA.before
              /\ todos[Len(todos)].text = lastHA.actions[2].text
              /\ ~todos[Len(todos)].completed

\* C16, reached: a stale action followed by an add was applied to a loaded
\* collection and the new item is there
C16_StaleThenAddApplied ==
    /\ StaleFirst
    /\ Len(lastHA.actions) = 2
    /\ lastHA.before # <<>>
    /\ Len(todos) = Len(lastHA.before) + 1

\* C18 (no overlapping action batches): never does a handleAction call start
\* while another is in flight.
C18_OneBatchInFlight == ha # None => ~ha.second

\* the completion the claim gives an item after a mark
CompletionAfter(t, status) ==
    CASE status = "complete" -> TRUE
      [] status = "incomplete" -> FALSE
      [] OTHER -> ~t.completed

\* the collection s with the completion of item id set as the mark says
WithMark(s, id, status) ==
    MapSeq(s, LAMBDA t :
        IF t.id = id THEN [t EXCEPT !.completed = CompletionAfter(t, status)]
        ELSE t)

\* the last handleAction ran a batch that is one mark of an item of the
\* collection, and has settled
MarkSettled ==
    /\ BatchSettled
    /\ Len(lastHA.actions) = 1
    /\ lastHA.actions[1].action = "mark"
    /\ lastHA.actions[1].todoId \in IdsOf(lastHA.before)

C21_EmptyTextRejected ==
    /\ \A t \in Range(todos) : t.text # ""
    /\ \A i \in 1..Len(pending) :
          pending[i].kind = "add" => pending[i].todo.text # ""

\* C29 (a reload never overwrites a newer optimistic edit): an item added
\* with no other operation in flight, and whose put succeeded, is in the
\* collection once every operation and every load has settled, also when a
\* load that started before the add completed during the put.
C29_ReloadKeepsOptimisticAdd ==
    (/\ last # None
     /\ last.kind = "add" /\ ~last.failed /\ last.seq
     /\ SettledMoment)
    => last.todo.id \in IdsOf(todos)

\* C30 (rollback is local to the failed operation): when an add or an update
\* fails while the collection shows the item of an update that overlapped it
\* and succeeded, on another item, the collection still shows that item after
\* the rollback of the failed operation.
C30_RollbackKeepsOtherUpdate ==
    [][(/\ last # None /\ last.kind = "update"
        /\ ~last.failed /\ ~last.seq
        /\ last.todo \in Range(todos)
        /\ last' # last
        /\ last'.kind \in {"add", "update"} /\ last'.failed
        /\ last'.todo.id # last.todo.id)
       => last.todo \in Range(todos')]_vars

\* C24 (persistence strategy of the simple operations): calling add appends
\* exactly one item and starts exactly one store call, calling update or
\* remove starts exactly one store call, and none of them writes at once;
\* when the call of an add / update lands, the one document "{id}.json"
\* becomes the encoding of the item and no other document changes; when the
\* call of a remove lands, the one document "{id}.json" goes and no other
\* document changes; a call that fails writes nothing.
C24_OneWritePerSimpleOperation ==
    [][/\ (/\ Len(pending') = Len(pending) + 1
           /\ pending'[Len(pending')].kind \in {"add", "update", "remove"})
          => /\ remote' = remote
             /\ pending'[Len(pending')].kind = "add"
                   => todos' = Append(todos, pending'[Len(pending')].todo)
       /\ (/\ Len(pending') = Len(pending) - 1
           /\ last'.kind \in {"add", "update", "remove"})
          => LET key == Filename(last'.todo.id) IN
             /\ \A k \in DOMAIN remote : k # key => remote'[k] = remote[k]
             /\ remote'[key] = IF last'.failed THEN remote[key]
                               ELSE IF last'.kind = "remove" THEN NoDoc
                               ELSE Encode(last'.todo)]_vars

\* C24, reached: the put of an add has landed; the document of the new item
\* is there and the two documents of the initial store are as they were
C24_AddWroteOneDocument ==
    /\ last # None /\ last.kind = "add" /\ ~last.failed
    /\ remote[Filename(last.todo.id)] = Encode(last.todo)
    /\ \A id \in InitialIds : remote[Filename(id)] = InitialDoc(id)
    /\ last.todo \in Range(todos)

\* C25 (one persistence call per utterance): when the interpreter returns a
\* batch of add and mark actions only, handleAction starts exactly one store
\* operation, the bulk setAllTodos, and no individual add, update or remove;
\* as long as that call of handleAction runs, no further operation starts.
C25_OneBulkCallPerUtterance ==
    [][(/\ ha'.kind \in {"loop", "bulk"}
        /\ ha'.actions # <<>>
        /\ \A i \in 1..Len(ha'.actions) : ha'.actions[i].action \in {"add", "mark"})
       => /\ ha'.kind = "bulk"
          /\ IF ha.kind = "interp"
             THEN /\ Len(pending') = Len(pending) + 1
                  /\ pending'[Len(pending')].kind = "setAll"
                  /\ \A i \in 1..Len(pending) : pending'[i].kind = pending[i].kind
                  /\ remote' = remote
             ELSE Len(pending') <= Len(pending)]_vars

\* C25, reached: a batch of an add and a mark of a listed item has been
\* applied and one bulk operation, holding the new item and the mark, is the
\* only operation in flight
C25_AddAndMarkInOneBulk ==
    /\ ha # None /\ ha.kind = "bulk"
    /\ Len(ha.actions) = 2
    /\ ha.actions[1].action = "add" /\ ha.actions[2].action = "mark"
    /\ ha.actions[2].todoId \in IdsOf(ha.todos)
    /\ Len(pending) = 1 /\ pending[1].kind = "setAll"
    /\ Len(pending[1].list) = Len(ha.todos) + 1
    /\ \E t \in Range(pending[1].list) :
          t.id = ha.actions[2].todoId /\ t.completed

\* the ids of a collection, in its order
IdSeq(s) == MapSeq(s, LAMBDA t : t.id)

\* a step in which update, toggle or soft delete is called
UpdateCalled ==
    /\ Len(pending') = Len(pending) + 1
    /\ pending'[Len(pending')].kind = "update"
    /\ pending'[Len(pending')].src = "user"

\* a step in which handleAction, given mark and edit actions only, calls
\* setAllTodos
MarkOrEditApplied ==
    /\ ha.kind \in {"interp", "resumed"} /\ ha'.kind = "bulk"
    /\ ha'.actions # <<>>
    /\ \A i \in 1..Len(ha'.actions) : ha'.actions[i].action \in {"mark", "edit"}

C23_ContextIsSelectedDateAndActive ==
    ha.kind # "none" =>
        \A t \in Range(ha.filtered) :
            /\ t \in Range(ha.todos)
            /\ t.date = selectedDate
            /\ ~t.removed

\* C23, reached: handleAction was called on a collection holding an item of
\* another date and a soft-deleted item, and handed over the remaining one
C23_OtherDateAndRemovedHeldBack ==
    /\ ha.kind = "interp"
    /\ \E t \in Range(ha.todos) : t.date # selectedDate /\ ~t.removed
    /\ \E t \in Range(ha.todos) : t.removed /\ t.date = selectedDate
    /\ Len(ha.filtered) = 1

\* C28 (the persisting flag is never left stuck): whenever the flag is up it
\* comes down again, whether the writes succeed or fail; and whenever no
\* write is in flight and no settle delay is running, the flag is down, so
\* that the change handler is not held back by it.
C28_FlagNeverStuck ==
    /\ isSaving ~> ~isSaving
    /\ [](pending = <<>> /\ timers = 0 => ~isSaving)

\* C28, reached: a write of the hook has failed, its settle delay has run
\* out, nothing is in flight and the flag is down
C28_FlagDownAfterFailedWrite ==
    /\ engine = "hook"
    /\ last # None /\ last.failed
    /\ pending = <<>> /\ timers = 0
    /\ ~isSaving

\* two items agree on the fields the codec carries
SameItem(x, y) ==
    /\ x.id = y.id /\ x.text = y.text /\ x.completed = y.completed
    /\ x.emoji = y.emoji /\ x.date = y.date /\ x.time = y.time

C27_OneInstanceClaimedOnce ==
    /\ conn.created <= 1
    /\ conn.claimed <= 1
    /\ conn.remoteStorageInstance <=> conn.created = 1
    /\ conn.remoteStorageInstance => conn.claimed = 1 /\ conn.isInitialized

\* C27, reached: every component is mounted and has run its effect, the one
\* that created the instance after having unmounted and mounted again, so
\* that no ref of a mounted component says the claims were made; there is
\* one instance, claimed once
C27_RemountClaimsNothing ==
    /\ \A c \in Components :
          /\ conn.comps[c].mounted /\ ~conn.comps[c].due
          /\ ~conn.comps[c].hasClaimedAccess
    /\ conn.created = 1 /\ conn.claimed = 1

\* every action of the batch is an add
AddOnly(actions) ==
    /\ actions # <<>>
    /\ \A i \in 1..Len(actions) : actions[i].action = "add"

\* C31 (add never deletes): the setAllTodos of a handleAction batch that
\* holds only add actions issues no delete to the store, whatever the
\* collection held when handleAction was called on the loaded engine: the
\* result of a failed reload, of a reload that skipped a document, or a
\* collection with soft-deleted items.
C31_AddNeverDeletes ==
    /\ (/\ ha # None /\ ha.kind = "bulk" /\ AddOnly(ha.actions)
        /\ ha.clean /\ isInitialized /\ load = None /\ issued # None)
       => issued.deletes = <<>>
    /\ (/\ lastHA # None /\ lastHA.path = "bulk" /\ AddOnly(lastHA.actions)
        /\ lastHA.clean /\ isInitialized /\ load = None /\ issued # None)
       => issued.deletes = <<>>

\* item t is soft-deleted and the update that marked it has settled
SoftDeleted(t) ==
    /\ t.removed
    /\ \A i \in 1..Len(pending) : pending[i].todo.id # t.id

\* C32 (soft delete keeps the item): an item of the store's collection that
\* deleteTodo has marked removed, its update having settled, is still in the
\* collection, still marked removed and not in the date view, after every
\* step of an operation that does not name it and does not fail: the call
\* and the settling of an update of another item, of setAllTodos and of a
\* handleAction batch.
C32_SoftDeletedStays ==
    [][\A t \in Range(todos) :
          (/\ SoftDeleted(t)
           /\ load.kind # "fetched"
           /\ ~(last' # None /\ last'.failed))
          => /\ t \in Range(todos')
             /\ t \notin Range(FilteredTodos(todos'))]_vars

\* C33 (one reload at a time): the in-flight marker is up exactly while a
\* loadTodos is in flight; a load starts only when none is in flight, so a
\* loadTodos called by the change handler or by a clear operation while one
\* is in flight leaves that load alone and reads nothing; and the step in
\* which a load settles, with its result or with a failure, takes the marker
\* down.
C33_OneLoadInFlight ==
    /\ [](loading <=> load # None)
    /\ [][(load' # load /\ load'.kind = "listing") => (load = None /\ ~loading)]_vars
    /\ [][(load.kind = "fetched" /\ load' # load) => (load' = None /\ ~loading')]_vars

\* C33, reached: a clear operation of the store has settled while the load
\* was in flight with its result fetched, and the load is still the one in
\* flight
C33_ClearMetLoadInFlight ==
    /\ last # None /\ last.kind = "clear" /\ ~last.failed
    /\ loading /\ load.kind = "fetched"

\* the collection holds no item of the selected date in the scope
Cleared(s, scope) == \A t \in Range(s) : ~InScope(t, scope)

\* a clear operation of the store, called on a loaded collection, is the
\* operation that settled last, it succeeded, and no other device has
\* written a document of the scope since
ClearSucceeded ==
    /\ last # None /\ last.kind = "clear" /\ ~last.failed
    /\ last.before # <<>> /\ isInitialized
    /\ \A t \in RemoteItems : ~InScope(t, last.scope)

\* C34 (direct clear is reflected locally): once a clear operation of the
\* store has succeeded and settled and no load is in flight, no item of the
\* selected date in the cleared scope is in the collection; and when a load
\* was in flight while the clear ran, this is so after the step in which
\* that load settles.
C34_ClearReflected ==
    /\ []((ClearSucceeded /\ load = None) => Cleared(todos, last.scope))
    /\ [][(ClearSucceeded /\ load.kind = "fetched" /\ load' = None)
          => Cleared(todos', last.scope)]_vars

\* C35 (load tolerates bad documents): what a load that read the listing is
\* about to show is one item for every listed document that could be read
\* and has a text field, built from that document, the others being passed
\* over; and the step in which a load settles, a failed listing included,
\* leaves the engine initialized with the in-flight marker down, the
\* collection being what was read, or empty after a failure.
C35_LoadSkipsBadDocuments ==
    /\ [][(load.kind = "listing" /\ load'.kind = "fetched" /\ ~load'.failed)
          => LET good == {k \in Listing(remote) \ load'.unread :
                             "todo_item_text" \in DOMAIN remote[k]}
             IN /\ Len(load'.result) = Cardinality(good)
                /\ \A k \in good :
                      \E j \in 1..Len(load'.result) :
                         /\ load'.result[j].id = IdOfFilename(k)
                         /\ load'.result[j].text = remote[k].todo_item_text
                         /\ Encode(load'.result[j]) = remote[k]]_vars
    /\ [][(load.kind = "fetched" /\ load' # load)
          => /\ isInitialized' /\ ~loading' /\ load' = None
             /\ todos' = IF load.failed THEN <<>> ELSE load.result]_vars

\* C35, reached: a load has settled over a listing of two documents of
\* which one has no text field: the other one is in the collection
C35_TextlessPassedOver ==
    /\ isInitialized /\ load = None /\ ~loading
    /\ Listing(remote) = {Filename(1), Filename(2)}
    /\ "todo_item_text" \notin DOMAIN remote[Filename(2)]
    /\ IdsOf(todos) = {1}
    /\ lastNotif # None /\ lastNotif.acted

\* handleAction goes from the interpreter's answer, one edit action a of an
\* item of the collection, into its loop, no reload having landed since it
\* was called
EditApplied(a) ==
    /\ ha.kind = "interp" /\ ha'.kind \in {"loop", "bulk"}
    /\ ha.clean
    /\ ha'.actions = <<a>>
    /\ a.action = "edit"
    /\ a.todoId \in IdsOf(todos)

\* C36 (edit without a desired state keeps completion): the step in which
\* an edit action that carries a text and no desired state is applied leaves
\* the completion of the item it names as it was.
C36_EditKeepsCompletion ==
    [][\A a \in EditActions(todos) :
          EditApplied(a)
          => \A t \in Range(todos) : \A u \in Range(todos') :
                (t.id = a.todoId /\ u.id = a.todoId) => u.completed = t.completed]_vars

\* C37 (edit without text is applied): the step in which an edit action
\* that names an item of the collection and carries only a desired state,
\* or only a time, is applied leaves the item with that completion, or that
\* time, and with the text it had.
C37_EditWithoutTextApplied ==
    [][\A a \in FieldEdits(todos) :
          EditApplied(a)
          => \A t \in Range(todos) :
                t.id = a.todoId
                => \E u \in Range(todos') :
                      /\ u.id = a.todoId /\ u.text = t.text
                      /\ a.status = "complete" => u.completed
                      /\ a.time # "" => u.time = a.time]_vars

====
